---- MODULE Spec2Model ----
(***************************************************************************)
(* go-fastcli: the concurrent aggregator (src/main.go, src/unnamed/part_000 *)
(* and src/unnamed/part_001 are three variants of the same program) and the *)
(* adaptive sampling controller (src/cmd/go-fastcli/main.go).               *)
(*                                                                         *)
(* Spec    : the concurrent aggregator: main's flag handling, the spawn     *)
(*           loop, the probe / download / upload goroutines, the three      *)
(*           channels and the select loop.                                  *)
(* SpecCtl : the adaptive controller's trial loop for one endpoint and one  *)
(*           direction.                                                     *)
(***************************************************************************)
EXTENDS Integers, Sequences, FiniteSets, Bags, TLC

(***************************************************************************)
(* Bounds of the model.                                                     *)
(***************************************************************************)
\* endpoints returned by the discovery API: 0..MaxTargets
MaxTargets == 2
\* -ping-times: 0..MaxPing
MaxPing == 2
\* -download-test-per-url, -upload-test-per-url, -test-per-url (-test_per_url
\* in main.go): 0..MaxPerUrl
MaxPerUrl == 1
\* responses received by the workers in one run
MaxReq == 1
\* byte-count samples emitted by the workers in one run
MaxEmit == 4
\* a chunk is 1..MaxChunk bytes long
MaxChunk == 2
\* a probe's connect time is 0..MaxLatency (ms)
MaxLatency == 2
\* the clock reads startTime + 0..MaxElapsed
MaxElapsed == 1
\* max loops to run: 100 in the program, scaled down
downMaxLoop == 5
\* resolution of a trial's throughput: one unit is 1/UnitsPerMiB MiB/s
UnitsPerMiB == 10
\* a statistics function is called on 0..MaxLen samples
MaxLen == 4
\* a float64 is modelled with FloatBits bits of mantissa instead of 53
FloatBits == 4
\* a counter's MaxIndex is 0..MaxPayload (FastMaxPayload, scaled down)
MaxPayload == 3
\* the buffer handed to Read or Write is 0..MaxBuf bytes long
MaxBuf == 2
\* data-returning Read and Write calls in one run of the counter model
MaxCalls == 4

(***************************************************************************)
(* Program constants.                                                       *)
(***************************************************************************)
\* make(chan uint, 1), make(chan bool, 1), make(chan float64, 1)
ChanCap == 1
\* bytes per second in one Mbit/s
BytesPerMbit == 125000
\* 1024*1024
BytesPerMiB == 1048576
\* payload size of a trial, in MB
downMeasureSlowMB == 2
downMeasureFastMB == 10
\* any value over this (MiB/s) would be considered a fast connection
downMeasureCutoffMB == downMeasureSlowMB
\* take last n values to calculate standard deviation
downStdLastVarsSlow == 3
downStdLastVarsFast == 4
\* the standard deviation thresholds 0.2 and 5.0 MiB/s, in tenths of a MiB/s
downStdMaxSlow == 2
downStdMaxFast == 50

\* the concurrent aggregator's three variants
Variants == {"main", "part_000", "part_001"}
\* the samples a statistics function is called on
StatLevels == {0, 10, 12, 14, 15}
\* the throughputs (in units) a trial can measure: a crawling transfer, slow
\* connections, the cutoff itself, just above it, and a fast connection
SpeedLevels == {1, 10, 11, 20, 21, 200}

VARIABLES
    variant,            \* which of the three source variants runs
    mpc,                \* position of main: parse, discover, spawn, wait, exit, fatal
    apc,                \* position inside the select loop: select, inc
    fatalBy,            \* who called log.Fatal: none, ipflags, api, ping, download
    parallelPerURL,     \* -test-per-url (main, part_000)
    nTargets,           \* len(m["targets"])
    testsToRun,
    testIdx,            \* index of the current test in testsToRun
    workers,            \* the goroutines of the current test type, a bag
    currentSpeed, doneChan, pingChan,
    totalTimes, uploadInitialSent, aggReg,
    totalDl, totalPing, speedMbps,
    elapsed,            \* the last clock reading, counted from startTime
    printed,            \* the test types whose final value was printed, in order
    final,              \* the final value the last finished test type printed
    hist,               \* history of the current test (not program state)
    cpc,                \* position of the controller: trial, report, reported, panic
    direction,          \* download or upload
    loopIdx,            \* i of the trial loop
    totalDownloads,     \* totalDownloads / totalUploads
    downMeasureMB, downStdLastVars, downStdMax, cutOffComplete,
    reported,           \* what the report line printed: speed and used MB
    trials,             \* every trial run for this direction (not program state)
    broke,              \* the trial loop ended by break (not program state)
    statNums, winN,     \* the arguments of a statistics call
    called,             \* the statistics function called, none before the call
    out,                \* what the call returned, or that it panicked
    ReadIndex, MaxIndex, SpeedChannel,  \* a BytesCounter and its channel
    ret,                \* what the last Read or Write returned
    ctr                 \* history of the counter since its last reset

aggVars == <<variant, mpc, apc, fatalBy, parallelPerURL, nTargets, testsToRun,
             testIdx, workers, currentSpeed, doneChan, pingChan, totalTimes,
             uploadInitialSent, aggReg, totalDl, totalPing, speedMbps, elapsed,
             printed, final, hist>>

ctlVars == <<cpc, direction, loopIdx, totalDownloads, downMeasureMB,
             downStdLastVars, downStdMax, cutOffComplete, reported, trials,
             broke>>

statVars == <<statNums, winN, called, out>>

counterVars == <<ReadIndex, MaxIndex, SpeedChannel, ret, ctr>>

libVars == <<statVars, counterVars>>

vars == <<aggVars, ctlVars, libVars>>

(***************************************************************************)
(* Helpers.                                                                 *)
(***************************************************************************)
RECURSIVE SumSeq(_)
SumSeq(s) == IF s = <<>> THEN 0 ELSE Head(s) + SumSeq(Tail(s))

SetMin(S) == CHOOSE x \in S : \A y \in S : x <= y

SetMax(S) == CHOOSE x \in S : \A y \in S : x >= y

\* the test type main is running
test == testsToRun[testIdx]

\* goroutines carry no identity: the ones of a test type are a bag of records
BagAdd(B, r) == B (+) SetToBag({r})

BagDel(B, r) == B (-) SetToBag({r})

Move(B, r, q) == BagAdd(BagDel(B, r), q)

\* spawned: goroutines started; doneSent, doneRecv: completions sent, received;
\* recvSum: the sum of the samples received; suppressed: samples received and
\* not counted; sentBy: the samples the probes of each endpoint have sent;
\* nReq, nEmit: the budgets of MaxReq and MaxEmit
HistInit == [spawned |-> 0, doneSent |-> 0, doneRecv |-> 0,
             recvSum |-> 0,
             suppressed |-> 0, sentBy |-> [e \in 1..MaxTargets |-> {}],
             nReq |-> 0, nEmit |-> 0,
             ipBoth |-> FALSE, sel |-> <<FALSE, FALSE, FALSE>>]

(***************************************************************************)
(* calculateSpeed: float64(totalDl) / elapsedSeconds / 125000, kept as the  *)
(* exact fraction num / den; den = 0 is the float division by zero.         *)
(***************************************************************************)
calculateSpeed(total, el) == [num |-> total, den |-> el * BytesPerMbit]

\* var speedMbps = float64(0)
ZeroSpeed == [num |-> 0, den |-> 1]

(***************************************************************************)
(* The minimum loop over totalPing: m starts at 0, the first element always *)
(* replaces it, a later one replaces it when smaller.                       *)
(***************************************************************************)
\* the minimum loop without its i == 0 case: m is only replaced by a smaller
\* element
RECURSIVE MinLoopNoFirst(_, _, _)
MinLoopNoFirst(s, i, m) ==
    IF i > Len(s) THEN m
    ELSE MinLoopNoFirst(s, i + 1, IF s[i] < m THEN s[i] ELSE m)

RECURSIVE MinLoop(_, _, _)
MinLoop(s, i, m) ==
    IF i > Len(s) THEN m
    ELSE MinLoop(s, i + 1, IF i = 1 \/ s[i] < m THEN s[i] ELSE m)

MinPing(s) == MinLoop(s, 1, 0)

\* the exit test taken one completion early
LoopExitEarly(t) == t <= 1

\* if totalTimes == 0 { ... break outer }
LoopExit(t) == t = 0

\* if uploadInitialSent > totalTimes { totalDl += c ... } else { uploadInitialSent++ }
CountsSample(u, t) == u > t

\* the running total overwritten by the sample
AccumulateLast(total, c) == c

\* totalDl += c
Accumulate(total, c) == total + c

(***************************************************************************)
(* Initial state: the process has started, flag.Parse() has not run yet.    *)
(***************************************************************************)
AggStart ==
    /\ mpc = "parse"
    /\ apc = "select"
    /\ fatalBy = "none"
    /\ parallelPerURL = 0
    /\ nTargets = 0
    /\ testsToRun = <<>>
    /\ testIdx = 0
    /\ workers = EmptyBag
    /\ currentSpeed = <<>>
    /\ doneChan = <<>>
    /\ pingChan = <<>>
    /\ totalTimes = 0
    /\ uploadInitialSent = 0
    /\ aggReg = 0
    /\ totalDl = 0
    /\ totalPing = <<>>
    /\ speedMbps = ZeroSpeed
    /\ elapsed = 0
    /\ printed = <<>>
    /\ final = ZeroSpeed
    /\ hist = HistInit

\* the process is running: log.Fatal and the return of main end every goroutine
Alive == mpc \notin {"exit", "fatal"}

(***************************************************************************)
(* main, up to the test loop.                                               *)
(***************************************************************************)
\* a check that lets every combination pass
NoConflict(v4, v6) == FALSE

\* testsToRun without the default of all three
SelectGiven(l, d, u) ==
    (IF l THEN <<"latency">> ELSE <<>>)
    \o (IF d THEN <<"download">> ELSE <<>>)
    \o (IF u THEN <<"upload">> ELSE <<>>)

\* testsToRun: none selected means all three; the order is fixed
SelectTests(l, d, u) ==
    LET all == ~d /\ ~u /\ ~l
    IN  (IF l \/ all THEN <<"latency">> ELSE <<>>)
        \o (IF d \/ all THEN <<"download">> ELSE <<>>)
        \o (IF u \/ all THEN <<"upload">> ELSE <<>>)

\* -ipv4 and -ipv6 are mutually exclusive (the flags do not exist in main.go)
IpConflict(v4, v6) == variant # "main" /\ v4 /\ v6

\* flag.Parse(), testsToRun, and the -ipv4 / -ipv6 check. The dial network
\* the flags select has no further effect on what is modelled.
ParseFlags ==
    /\ mpc = "parse"
    /\ \E l, d, u, v4, v6 \in BOOLEAN, p \in 0..MaxPerUrl :
        /\ variant = "part_001" => p = 0
        /\ variant = "main" => (~v4 /\ ~v6)
        /\ parallelPerURL' = p
        /\ hist' = [hist EXCEPT !.ipBoth = v4 /\ v6, !.sel = <<l, d, u>>]
        /\ testsToRun' = SelectTests(l, d, u)
        /\ IF IpConflict(v4, v6)
           THEN mpc' = "fatal" /\ fatalBy' = "ipflags"
           ELSE mpc' = "discover" /\ fatalBy' = fatalBy
    /\ UNCHANGED <<libVars, ctlVars, variant, apc, nTargets, testIdx, workers, currentSpeed,
                   doneChan, pingChan, totalTimes, uploadInitialSent, aggReg,
                   totalDl, totalPing, speedMbps, elapsed, printed, final>>

\* http.Get of the discovery API: an error or a bad status is fatal
Discover ==
    /\ mpc = "discover"
    /\ \/ /\ mpc' = "fatal"
          /\ fatalBy' = "api"
          /\ UNCHANGED <<nTargets, testIdx>>
       \/ \E n \in 0..MaxTargets :
            /\ nTargets' = n
            /\ testIdx' = 1
            /\ mpc' = "spawn"
            /\ fatalBy' = fatalBy
    /\ UNCHANGED <<libVars, ctlVars, variant, apc, parallelPerURL, testsToRun, workers,
                   currentSpeed, doneChan, pingChan, totalTimes,
                   uploadInitialSent, aggReg, totalDl, totalPing, speedMbps,
                   elapsed, printed, final, hist>>

(***************************************************************************)
(* The spawn loop of one test type. A goroutine does nothing main can see   *)
(* before the select loop starts (main touches neither the channels nor     *)
(* uploadInitialSent while it spawns), so the loop is one step.             *)
(***************************************************************************)
\* the value of the per-url flag a test type reads
PerUrlOK(n) ==
    IF test = "latency"
    THEN n <= MaxPing /\ (variant = "main" => n = 1)
    ELSE n <= MaxPerUrl /\ (variant # "part_001" => n = parallelPerURL)

StartPc(kind) ==
    IF kind = "latency" THEN "ping"
    ELSE IF kind = "upload" /\ variant = "part_001" THEN "load"
    ELSE "do"

\* reg: the value of *uploadinit the goroutine has loaded
NewWorker(kind, e) ==
    [kind |-> kind, ep |-> e, pc |-> StartPc(kind), reg |-> 0]

\* a goroutine that returns: the deferred AnnounceDeath is what is left of it
Returning(r) == [r EXCEPT !.pc = "dying", !.reg = 0]

\* a deadline shared by the goroutines: every one still at work returns
ExpireAll(B, r) ==
    LET End(x) == IF x.pc \in {"dying", "dead", "fatal"} THEN x
                  ELSE Returning(x)
    IN  [q \in {End(x) : x \in BagToSet(B)} |->
            BagCardinality([x \in {y \in BagToSet(B) : End(y) = q} |->
                                CopiesIn(x, B)])]

\* ctx of context.WithTimeout(context.Background(), ...) is local to the
\* call: its expiry, seen as the error of client.Do, makes this goroutine
\* return and no other
Expire(B, r) == Move(B, r, Returning(r))

\* a goroutine that called log.Fatal
Failed(r) == [r EXCEPT !.pc = "fatal"]

Spawn ==
    /\ mpc = "spawn"
    /\ \E n \in 0..(MaxPing + MaxPerUrl) :
        /\ PerUrlOK(n)
        /\ workers' = IF n = 0 THEN EmptyBag
                      ELSE [r \in {NewWorker(test, e) : e \in 1..nTargets} |-> n]
        /\ totalTimes' = nTargets * n
        /\ hist' = [HistInit EXCEPT !.spawned = nTargets * n,
                                    !.nReq = hist.nReq, !.nEmit = hist.nEmit,
                                    !.ipBoth = hist.ipBoth, !.sel = hist.sel]
    /\ uploadInitialSent' = 0
    /\ elapsed' = 0
    /\ totalDl' = 0
    /\ totalPing' = <<>>
    /\ speedMbps' = ZeroSpeed
    /\ final' = ZeroSpeed
    /\ mpc' = "wait"
    /\ UNCHANGED <<libVars, ctlVars, variant, apc, fatalBy, parallelPerURL, nTargets, testsToRun,
                   testIdx, currentSpeed, doneChan, pingChan, aggReg, printed>>

\* the goroutines, by their state
W == BagToSet(workers)

WorkerFrame == <<libVars, ctlVars, variant, apc, parallelPerURL, nTargets, testsToRun,
                 testIdx, totalTimes, aggReg, totalDl, totalPing, speedMbps,
                 elapsed, printed, final>>

(***************************************************************************)
(* PingURL.                                                                 *)
(***************************************************************************)
\* RoundTrip succeeded: result <- connect time, then the deferred AnnounceDeath
PingOK(r) ==
    /\ Alive /\ r.pc = "ping"
    /\ Len(pingChan) < ChanCap
    /\ \E v \in 0..MaxLatency :
        /\ pingChan' = Append(pingChan, v)
        /\ hist' = [hist EXCEPT !.sentBy[r.ep] = hist.sentBy[r.ep] \cup {v}]
    /\ workers' = Move(workers, r, Returning(r))
    /\ UNCHANGED <<WorkerFrame, mpc, fatalBy, currentSpeed, doneChan,
                   uploadInitialSent>>

\* RoundTrip failed: log.Fatal(err) ends the process, no deferred call runs
PingFail(r) ==
    /\ Alive /\ r.pc = "ping"
    /\ workers' = Move(workers, r, Failed(r))
    /\ mpc' = "fatal"
    /\ fatalBy' = "ping"
    /\ UNCHANGED <<WorkerFrame, currentSpeed, doneChan, pingChan,
                   uploadInitialSent, hist>>

\* done <- true, the last thing a returning goroutine does
AnnounceDeath(r) ==
    /\ Alive /\ r.pc = "dying"
    /\ Len(doneChan) < ChanCap
    /\ doneChan' = Append(doneChan, TRUE)
    /\ workers' = Move(workers, r, [r EXCEPT !.pc = "dead"])
    /\ hist' = [hist EXCEPT !.doneSent = hist.doneSent + 1]
    /\ UNCHANGED <<WorkerFrame, mpc, fatalBy, currentSpeed, pingChan,
                   uploadInitialSent>>

(***************************************************************************)
(* DownloadFile.                                                            *)
(***************************************************************************)
\* client.Do returned a response
DownloadDoOK(r) ==
    /\ Alive /\ r.kind = "download" /\ r.pc = "do"
    /\ hist.nReq < MaxReq
    /\ workers' = Move(workers, r, [r EXCEPT !.pc = "copy"])
    /\ hist' = [hist EXCEPT !.nReq = hist.nReq + 1]
    /\ UNCHANGED <<WorkerFrame, mpc, fatalBy, currentSpeed, doneChan, pingChan,
                   uploadInitialSent>>

\* what DownloadFile does with an error of client.Do: TRUE when it calls log.Fatal
DownloadErrFatal(e) == variant = "main" /\ e # "deadline"

\* client.Do returned an error: the deadline of the worker's own context, which
\* passes at a moment of its own, or a transport error
DownloadDoErr(r) ==
    /\ Alive /\ r.kind = "download" /\ r.pc = "do"
    /\ \E e \in {"deadline", "transport"} :
        /\ IF DownloadErrFatal(e)
           THEN /\ workers' = Move(workers, r, Failed(r))
                /\ mpc' = "fatal"
                /\ fatalBy' = "download"
           ELSE /\ workers' = Expire(workers, r)
                /\ UNCHANGED <<mpc, fatalBy>>
    /\ UNCHANGED <<WorkerFrame, currentSpeed, doneChan, pingChan,
                   uploadInitialSent, hist>>

\* one chunk of the response body: BytesCounter.Write (speed <- count in main.go)
DownloadWrite(r) ==
    /\ Alive /\ r.kind = "download" /\ r.pc = "copy"
    /\ Len(currentSpeed) < ChanCap
    /\ hist.nEmit < MaxEmit
    /\ \E n \in 1..MaxChunk :
        currentSpeed' = Append(currentSpeed,
            [n |-> n, kind |-> "download"])
    /\ UNCHANGED workers
    /\ hist' = [hist EXCEPT !.nEmit = hist.nEmit + 1]
    /\ UNCHANGED <<WorkerFrame, mpc, fatalBy, doneChan, pingChan,
                   uploadInitialSent>>

\* the body ended (EOF, or a read error such as the deadline): next request
DownloadCopyEnd(r) ==
    /\ Alive /\ r.kind = "download" /\ r.pc = "copy"
    /\ workers' = Move(workers, r, [r EXCEPT !.pc = "do"])
    /\ UNCHANGED <<WorkerFrame, mpc, fatalBy, currentSpeed, doneChan, pingChan,
                   uploadInitialSent, hist>>

(***************************************************************************)
(* UploadFile. *uploadinit-- (part_001) is an unsynchronised read-modify-   *)
(* write of main's uploadInitialSent: a load and a store.                   *)
(***************************************************************************)
UploadLoad(r) ==
    /\ Alive /\ r.kind = "upload" /\ r.pc = "load"
    /\ workers' = Move(workers, r, [r EXCEPT !.pc = "store",
                                             !.reg = uploadInitialSent])
    /\ UNCHANGED <<WorkerFrame, mpc, fatalBy, currentSpeed, doneChan, pingChan,
                   uploadInitialSent, hist>>

UploadStore(r) ==
    /\ Alive /\ r.kind = "upload" /\ r.pc = "store"
    /\ uploadInitialSent' = r.reg - 1
    /\ workers' = Move(workers, r, [r EXCEPT !.pc = "do", !.reg = 0])
    /\ UNCHANGED <<WorkerFrame, mpc, fatalBy, currentSpeed, doneChan, pingChan,
                   hist>>

\* client.Do reads the request body: BytesCounter.Read delivers one chunk
UploadRead(r) ==
    /\ Alive /\ r.kind = "upload" /\ r.pc = "do"
    /\ Len(currentSpeed) < ChanCap
    /\ hist.nEmit < MaxEmit
    /\ \E n \in 1..MaxChunk :
        currentSpeed' = Append(currentSpeed,
            [n |-> n, kind |-> "upload"])
    /\ UNCHANGED workers
    /\ hist' = [hist EXCEPT !.nEmit = hist.nEmit + 1]
    /\ UNCHANGED <<WorkerFrame, mpc, fatalBy, doneChan, pingChan,
                   uploadInitialSent>>

\* client.Do returned a response: the loop starts the next request
UploadDoOK(r) ==
    /\ Alive /\ r.kind = "upload" /\ r.pc = "do"
    /\ hist.nReq < MaxReq
    /\ workers' = Move(workers, r, [r EXCEPT !.pc = StartPc("upload")])
    /\ hist' = [hist EXCEPT !.nReq = hist.nReq + 1]
    /\ UNCHANGED <<WorkerFrame, mpc, fatalBy, currentSpeed, doneChan, pingChan,
                   uploadInitialSent>>

\* client.Do returned an error (deadline or transport): UploadFile returns
UploadDoErr(r) ==
    /\ Alive /\ r.kind = "upload" /\ r.pc = "do"
    /\ workers' = Expire(workers, r)
    /\ UNCHANGED <<WorkerFrame, mpc, fatalBy, currentSpeed, doneChan, pingChan,
                   uploadInitialSent, hist>>

(***************************************************************************)
(* The select loop of main. Every case is guarded by the readiness of its   *)
(* channel; when several are ready the runtime picks any of them.           *)
(***************************************************************************)
\* whether the current test type adds a sample to totalDl
Counted ==
    IF variant = "part_001"
    THEN (test = "download" \/ CountsSample(uploadInitialSent, totalTimes))
    ELSE TRUE

\* the time since startTime that a clock reading can give, no earlier than
\* the last one: time.Now().Unix()-startTime counts whole seconds and is 0 in
\* the first second (src/main.go, part_000); time.Now().Sub(startTime) of
\* part_001 is a monotonic reading after startTime, never 0
ClockReadings ==
    IF variant = "part_001" THEN {t \in elapsed..MaxElapsed : t > 0}
    ELSE elapsed..MaxElapsed

\* case c := <-currentSpeed. time.Now() in calculateSpeed reads the clock: the
\* reading is no earlier than the last one.
RecvSpeed ==
    /\ mpc = "wait" /\ apc = "select"
    /\ currentSpeed # <<>>
    /\ LET c == Head(currentSpeed)
       IN  /\ currentSpeed' = Tail(currentSpeed)
           /\ IF Counted
              THEN /\ totalDl' = Accumulate(totalDl, c.n)
                   /\ \E now \in ClockReadings :
                        /\ elapsed' = now
                        /\ speedMbps' = calculateSpeed(totalDl', now)
                   /\ UNCHANGED <<apc, aggReg>>
              ELSE /\ aggReg' = uploadInitialSent
                   /\ apc' = "inc"
                   /\ UNCHANGED <<totalDl, speedMbps, elapsed>>
           /\ hist' = [hist EXCEPT
                         !.recvSum = hist.recvSum + c.n,
                         !.suppressed = hist.suppressed + (IF Counted THEN 0 ELSE 1)]
    /\ UNCHANGED <<libVars, ctlVars, variant, mpc, fatalBy, parallelPerURL, nTargets, testsToRun,
                   testIdx, workers, doneChan, pingChan, totalTimes,
                   uploadInitialSent, totalPing, printed, final>>

\* the store of uploadInitialSent++
AggIncStore ==
    /\ mpc = "wait" /\ apc = "inc"
    /\ uploadInitialSent' = aggReg + 1
    /\ apc' = "select"
    /\ aggReg' = 0
    /\ UNCHANGED <<libVars, ctlVars, variant, mpc, fatalBy, parallelPerURL, nTargets, testsToRun,
                   testIdx, workers, currentSpeed, doneChan, pingChan,
                   totalTimes, totalDl, totalPing, speedMbps, elapsed,
                   printed, final, hist>>

\* case c := <-pingChan
RecvPing ==
    /\ mpc = "wait" /\ apc = "select"
    /\ pingChan # <<>>
    /\ totalPing' = Append(totalPing, Head(pingChan))
    /\ pingChan' = Tail(pingChan)
    /\ UNCHANGED <<libVars, ctlVars, variant, mpc, apc, fatalBy, parallelPerURL, nTargets,
                   testsToRun, testIdx, workers, currentSpeed, doneChan,
                   totalTimes, uploadInitialSent, aggReg, totalDl, speedMbps,
                   elapsed, printed, final, hist>>

\* the value printed when the last completion is counted
FinalValue ==
    IF test = "latency" THEN [num |-> MinPing(totalPing), den |-> 1]
    ELSE speedMbps

\* case <-doneChan
RecvDone ==
    /\ mpc = "wait" /\ apc = "select"
    /\ doneChan # <<>>
    /\ doneChan' = Tail(doneChan)
    /\ totalTimes' = totalTimes - 1
    /\ hist' = [hist EXCEPT !.doneRecv = hist.doneRecv + 1]
    /\ IF LoopExit(totalTimes')
       THEN /\ printed' = Append(printed, test)
            /\ final' = FinalValue
            /\ IF testIdx < Len(testsToRun)
               THEN testIdx' = testIdx + 1 /\ mpc' = "spawn"
               ELSE testIdx' = testIdx /\ mpc' = "exit"
       ELSE UNCHANGED <<printed, final, testIdx, mpc>>
    /\ UNCHANGED <<libVars, ctlVars, variant, apc, fatalBy, parallelPerURL, nTargets, testsToRun,
                   workers, currentSpeed, pingChan, uploadInitialSent, aggReg,
                   totalDl, totalPing, speedMbps, elapsed>>


NextAgg ==
    \/ ParseFlags
    \/ Discover
    \/ Spawn
    \/ RecvSpeed
    \/ AggIncStore
    \/ RecvPing
    \/ RecvDone
    \/ \E r \in W : PingOK(r)
    \/ \E r \in W : PingFail(r)
    \/ \E r \in W : AnnounceDeath(r)
    \/ \E r \in W : DownloadDoOK(r)
    \/ \E r \in W : DownloadDoErr(r)
    \/ \E r \in W : DownloadWrite(r)
    \/ \E r \in W : DownloadCopyEnd(r)
    \/ \E r \in W : UploadLoad(r)
    \/ \E r \in W : UploadStore(r)
    \/ \E r \in W : UploadRead(r)
    \/ \E r \in W : UploadDoOK(r)
    \/ \E r \in W : UploadDoErr(r)

(***************************************************************************)
(* The adaptive controller (src/cmd/go-fastcli/main.go): for the one server *)
(* requested (serverNum := 1) the download loop, then the upload loop. The  *)
(* two loops are the same code over their own variables; the model keeps    *)
(* the download loop's names. Throughputs are counted in units of           *)
(* 1/UnitsPerMiB MiB/s.                                                     *)
(***************************************************************************)
\* the first n elements instead of the last n
FirstN(nums, n) == SubSeq(nums, 1, n)

\* nums[len(nums)-n:]
LastN(nums, n) == SubSeq(nums, Len(nums) - n + 1, Len(nums))

\* the three panics of the ...LastN functions
LastNPanics(nums, n) == Len(nums) < n \/ n <= 0 \/ n > Len(nums)

\* CalcMaxValue: var max float64; for each num: if num > max { max = num }
RECURSIVE MaxLoop(_, _, _)
MaxLoop(nums, k, max) ==
    IF k > Len(nums) THEN max
    ELSE MaxLoop(nums, k + 1, IF nums[k] > max THEN nums[k] ELSE max)

CalcMaxValue(nums) == MaxLoop(nums, 1, 0)

\* the maximum over all the samples instead of the last n
CalcMaxValueOfAll(nums, n) == CalcMaxValue(nums)

CalcMaxValueLastN(nums, n) == CalcMaxValue(LastN(nums, n))

\* sum of (num - mean)^2 over nums, times len(nums)^2 (mean = total / len)
RECURSIVE SqDevLoop(_, _, _)
SqDevLoop(nums, k, total) ==
    IF k > Len(nums) THEN 0
    ELSE (Len(nums) * nums[k] - total) * (Len(nums) * nums[k] - total)
         + SqDevLoop(nums, k + 1, total)

\* CalcStdDeviation(nums) < 1024*1024*max, max given in tenths of a MiB/s:
\* sqrt(SqDev / len^2 / len) < max / 10 * UnitsPerMiB, squared and cleared of
\* its divisions
StdDeviationBelow(nums, max) ==
    100 * SqDevLoop(nums, 1, SumSeq(nums))
        < max * max * UnitsPerMiB * UnitsPerMiB
          * Len(nums) * Len(nums) * Len(nums)

\* the convergence test over all the samples instead of the last n
ConvergedOverAll(nums, n, max) ==
    Len(nums) >= n /\ StdDeviationBelow(nums, max)

\* len(totalDownloads) >= downStdLastVars &&
\* CalcStdDeviationLastN(totalDownloads, downStdLastVars) < 1024*1024*downStdMax
Converged(nums, n, max) ==
    /\ Len(nums) >= n
    /\ ~LastNPanics(nums, n)
    /\ StdDeviationBelow(LastN(nums, n), max)

\* the escalation test without its cutOffComplete guard
EscalatesAlways(done, speed) == speed > downMeasureCutoffMB * UnitsPerMiB

\* !cutOffComplete && downloadSpeed > downMeasureCutoffMB*1024*1024
Escalates(done, speed) ==
    ~done /\ speed > downMeasureCutoffMB * UnitsPerMiB

\* a ceiling as low as the slow window
LoopRunsToSlowWindow(k) == k < downStdLastVarsSlow

\* for i := 0; i < downMaxLoop; i++
LoopRuns(k) == k < downMaxLoop

\* CalcMaxValueLastN(...)/125000, and len(totalDownloads)*downMeasureMB
ReportLine(nums, n, mb) ==
    [num |-> CalcMaxValueLastN(nums, n) * BytesPerMiB,
     den |-> UnitsPerMiB * BytesPerMbit,
     usedMB |-> Len(nums) * mb]

NoReport == [num |-> 0, den |-> 0, usedMB |-> 0]

\* the locals of one direction's loop for one server
LoopStart ==
    /\ cpc = "trial"
    /\ loopIdx = 0
    /\ totalDownloads = <<>>
    /\ downMeasureMB = downMeasureSlowMB
    /\ downStdLastVars = downStdLastVarsSlow
    /\ downStdMax = downStdMaxSlow
    /\ cutOffComplete = FALSE
    /\ reported = NoReport
    /\ trials = <<>>
    /\ broke = FALSE

CtlStart == direction = "download" /\ LoopStart

\* one iteration of the trial loop: GetDownloadSpeed / GetUploadSpeed returned
\* speed; with it the loop's next condition i < downMaxLoop
Trial ==
    /\ cpc = "trial"
    /\ \E speed \in SpeedLevels :
        IF Escalates(cutOffComplete, speed)
        THEN /\ downMeasureMB' = downMeasureFastMB
             /\ downStdLastVars' = downStdLastVarsFast
             /\ downStdMax' = downStdMaxFast
             /\ cutOffComplete' = TRUE
             \* i-- and, by continue, i++
             /\ UNCHANGED <<loopIdx, totalDownloads, cpc, broke>>
             /\ trials' = Append(trials,
                    [speed |-> speed, mb |-> downMeasureMB, kept |-> FALSE,
                     n |-> downStdLastVars', max |-> downStdMax'])
        ELSE /\ totalDownloads' = Append(totalDownloads, speed)
             /\ trials' = Append(trials,
                    [speed |-> speed, mb |-> downMeasureMB, kept |-> TRUE,
                     n |-> downStdLastVars, max |-> downStdMax])
             /\ IF Converged(totalDownloads', downStdLastVars, downStdMax)
                THEN /\ broke' = TRUE
                     /\ loopIdx' = loopIdx
                     /\ cpc' = "report"
                ELSE /\ broke' = FALSE
                     /\ loopIdx' = loopIdx + 1
                     /\ cpc' = IF LoopRuns(loopIdx') THEN "trial" ELSE "report"
             /\ UNCHANGED <<downMeasureMB, downStdLastVars, downStdMax,
                            cutOffComplete>>
    /\ UNCHANGED <<libVars, aggVars, direction, reported>>

\* the request of a trial failed: GetDownloadSpeed / GetUploadSpeed panics
TrialPanics ==
    /\ cpc = "trial"
    /\ cpc' = "panic"
    /\ UNCHANGED <<libVars, aggVars, direction, loopIdx, totalDownloads, downMeasureMB,
                   downStdLastVars, downStdMax, cutOffComplete, reported,
                   trials, broke>>

\* the Printf after the loop
Report ==
    /\ cpc = "report"
    /\ IF LastNPanics(totalDownloads, downStdLastVars)
       THEN cpc' = "panic" /\ reported' = reported
       ELSE /\ cpc' = "reported"
            /\ reported' = ReportLine(totalDownloads, downStdLastVars,
                                      downMeasureMB)
    /\ UNCHANGED <<libVars, aggVars, direction, loopIdx, totalDownloads, downMeasureMB,
                   downStdLastVars, downStdMax, cutOffComplete, trials, broke>>

\* the upload loop follows the download loop, with fresh locals
StartUpload ==
    /\ cpc = "reported" /\ direction = "download"
    /\ direction' = "upload"
    /\ cpc' = "trial"
    /\ loopIdx' = 0
    /\ totalDownloads' = <<>>
    /\ downMeasureMB' = downMeasureSlowMB
    /\ downStdLastVars' = downStdLastVarsSlow
    /\ downStdMax' = downStdMaxSlow
    /\ cutOffComplete' = FALSE
    /\ reported' = NoReport
    /\ trials' = <<>>
    /\ broke' = FALSE
    /\ UNCHANGED <<libVars, aggVars>>

NextCtl ==
    \/ Trial
    \/ TrialPanics
    \/ Report
    \/ StartUpload

(***************************************************************************)
(* The statistics functions (src/cmd/go-fastcli/main.go), each called once  *)
(* on arbitrary arguments. A float result is kept as the exact fraction     *)
(* num / den; for a standard deviation the fraction is its square.          *)
(***************************************************************************)
\* what a call gives back: a value, or a panic and no value
Returned(v) == [panic |-> FALSE, num |-> v.num, den |-> v.den]

Panicked == [panic |-> TRUE, num |-> 0, den |-> 0]

NoResult == [panic |-> FALSE, num |-> 0, den |-> 0]

\* CalcMean: total / float64(len(nums))
CalcMean(s) == [num |-> SumSeq(s), den |-> Len(s)]

\* CalcStdDeviation, squared: (sum of (num - mean)^2) / len, over len^2 / len^2
CalcStdDeviation(s) ==
    [num |-> SqDevLoop(s, 1, SumSeq(s)), den |-> Len(s) * Len(s) * Len(s)]

\* CalcMeanOfLastN, CalcStdDeviationLastN, CalcMaxValueLastN: the three
\* panics, else the statistic of nums[len(nums)-n:]
CalcMeanOfLastN(s, n) ==
    IF LastNPanics(s, n) THEN Panicked ELSE Returned(CalcMean(LastN(s, n)))

CalcStdDeviationLastN(s, n) ==
    IF LastNPanics(s, n) THEN Panicked
    ELSE Returned(CalcStdDeviation(LastN(s, n)))

MaxValueLastN(s, n) ==
    IF LastNPanics(s, n) THEN Panicked
    ELSE Returned([num |-> CalcMaxValueLastN(s, n), den |-> 1])

\* a difference taken with its sign
Signed(x) == x

\* math.Abs
Abs(x) == IF x < 0 THEN -x ELSE x

\* CalcJitter: for i := 1; i < len(nums); i++ { diffs += |nums[i] - nums[i-1]| }
RECURSIVE JitterLoop(_, _, _)
JitterLoop(s, k, diffs) ==
    IF k > Len(s) THEN diffs
    ELSE JitterLoop(s, k + 1, diffs + Abs(s[k] - s[k - 1]))

\* if len(nums) < 2 { panic }
JitterPanics(s) == Len(s) < 2

CalcJitter(s) ==
    IF JitterPanics(s) THEN Panicked
    ELSE Returned([num |-> JitterLoop(s, 2, 0), den |-> Len(s) - 1])

(***************************************************************************)
(* The standard deviation as the machine computes it.  A float is m * 2^e   *)
(* with m = 0 or 2^(FloatBits-1) <= m < 2^FloatBits; every operation rounds *)
(* its exact result to the nearest float, ties to the even mantissa.        *)
(***************************************************************************)
RECURSIVE Pow2(_)
Pow2(k) == IF k <= 0 THEN 1 ELSE 2 * Pow2(k - 1)

\* the exponents searched for a result
ExpRange == (0 - 3 * FloatBits)..(3 * FloatBits)

FlZero == [m |-> 0, e |-> 0]

\* a float as the fraction FlNum / FlDen
FlNum(f) == f.m * Pow2(f.e)
FlDen(f) == Pow2(0 - f.e)

\* rounding that takes a tie away from zero
TiesAway(q, r, d) == 2 * r >= d

\* round to nearest, ties to even: quotient q, remainder r, divisor d
TiesToEven(q, r, d) == 2 * r > d \/ (2 * r = d /\ q % 2 = 1)

\* the float nearest to N / D, N >= 0, D > 0
RoundFl(N, D) ==
    IF N = 0 THEN FlZero
    ELSE LET A(x) == N * Pow2(0 - x)
             B(x) == D * Pow2(x)
             e == CHOOSE x \in ExpRange :
                     /\ Pow2(FloatBits - 1) * B(x) <= A(x)
                     /\ A(x) < Pow2(FloatBits) * B(x)
             q == A(e) \div B(e)
             r == A(e) % B(e)
             m == IF TiesToEven(q, r, B(e)) THEN q + 1 ELSE q
         IN  IF m = Pow2(FloatBits) THEN [m |-> Pow2(FloatBits - 1), e |-> e + 1]
             ELSE [m |-> m, e |-> e]

\* a + b, |a - b|, a * b, a / float64(n)
FlAdd(a, b) ==
    RoundFl(FlNum(a) * FlDen(b) + FlNum(b) * FlDen(a), FlDen(a) * FlDen(b))
FlAbsDiff(a, b) ==
    LET x == FlNum(a) * FlDen(b)
        y == FlNum(b) * FlDen(a)
    IN  RoundFl(IF x >= y THEN x - y ELSE y - x, FlDen(a) * FlDen(b))
FlMul(a, b) == RoundFl(FlNum(a) * FlNum(b), FlDen(a) * FlDen(b))
FlDiv(a, n) == RoundFl(FlNum(a), FlDen(a) * n)

\* math.Sqrt: the float nearest to the root (a tie cannot happen)
FlSqrt(a) ==
    IF a.m = 0 THEN FlZero
    ELSE LET A(x) == a.m * Pow2(a.e - 2 * x)
             B(x) == Pow2(2 * x - a.e)
             lo == Pow2(FloatBits - 1)
             hi == Pow2(FloatBits)
             half == (a.e + FloatBits - 1) \div 2 - (FloatBits - 1)
             e == CHOOSE x \in (half - 1)..(half + 1) :
                     lo * lo * B(x) <= A(x) /\ A(x) < hi * hi * B(x)
             q == CHOOSE m \in lo..(hi - 1) :
                     /\ m * m * B(e) <= A(e)
                     /\ A(e) < (m + 1) * (m + 1) * B(e)
         IN  IF (2 * q + 1) * (2 * q + 1) * B(e) < 4 * A(e)
             THEN (IF q + 1 = hi THEN [m |-> lo, e |-> e + 1]
                   ELSE [m |-> q + 1, e |-> e])
             ELSE [m |-> q, e |-> e]

\* CalcMean: for _, num := range nums { total += num }
RECURSIVE FlSumLoop(_, _, _)
FlSumLoop(s, k, total) ==
    IF k > Len(s) THEN total
    ELSE FlSumLoop(s, k + 1, FlAdd(total, RoundFl(s[k], 1)))

\* CalcMean: total / float64(len(nums))
CalcMeanRounded(s) == FlDiv(FlSumLoop(s, 1, FlZero), Len(s))

\* CalcStdDeviation: total += math.Pow(num-mean, 2)
RECURSIVE FlSqDevLoop(_, _, _, _)
FlSqDevLoop(s, k, mean, total) ==
    IF k > Len(s) THEN total
    ELSE LET d == FlAbsDiff(RoundFl(s[k], 1), mean)
         IN  FlSqDevLoop(s, k + 1, mean, FlAdd(total, FlMul(d, d)))

\* CalcStdDeviation in machine arithmetic; of no samples it is 0/0, not a
\* number
CalcStdDeviationRounded(s) ==
    IF Len(s) = 0 THEN [panic |-> FALSE, num |-> 0, den |-> 0]
    ELSE LET f == FlSqrt(FlDiv(FlSqDevLoop(s, 1, CalcMeanRounded(s), FlZero),
                               Len(s)))
         IN  Returned([num |-> FlNum(f), den |-> FlDen(f)])

\* the sample sequences and windows a call is made with
StatInputs == UNION {[1..k -> StatLevels] : k \in 0..MaxLen}

StatStart ==
    /\ statNums = <<>>
    /\ winN = 0
    /\ called = "none"
    /\ out = NoResult

CallMeanOfLastN ==
    /\ called = "none"
    /\ called' = "CalcMeanOfLastN"
    /\ out' = CalcMeanOfLastN(statNums, winN)
    /\ UNCHANGED <<aggVars, ctlVars, counterVars, statNums, winN>>

CallStdDeviationLastN ==
    /\ called = "none"
    /\ called' = "CalcStdDeviationLastN"
    /\ out' = CalcStdDeviationLastN(statNums, winN)
    /\ UNCHANGED <<aggVars, ctlVars, counterVars, statNums, winN>>

CallMaxValueLastN ==
    /\ called = "none"
    /\ called' = "CalcMaxValueLastN"
    /\ out' = MaxValueLastN(statNums, winN)
    /\ UNCHANGED <<aggVars, ctlVars, counterVars, statNums, winN>>

CallJitter ==
    /\ called = "none"
    /\ called' = "CalcJitter"
    /\ out' = CalcJitter(statNums)
    /\ UNCHANGED <<aggVars, ctlVars, counterVars, statNums, winN>>

\* CalcStdDeviation, called on the window by CalcStdDeviationLastN
CallStdDeviation ==
    /\ called = "none"
    /\ called' = "CalcStdDeviation"
    /\ out' = CalcStdDeviationRounded(statNums)
    /\ UNCHANGED <<aggVars, ctlVars, counterVars, statNums, winN>>

NextStat ==
    \/ CallStdDeviation
    \/ CallMeanOfLastN
    \/ CallStdDeviationLastN
    \/ CallMaxValueLastN
    \/ CallJitter

(***************************************************************************)
(* BytesCounter (src/unnamed/part_001): one counter, the goroutine that     *)
(* reads from or writes to it, and the receiver of its channel.             *)
(***************************************************************************)
\* the end-of-stream test taken one byte late
ReadEOFLate(ri, mi) == ri > mi

\* if c.ReadIndex >= c.MaxIndex { err = io.EOF; return }
ReadEOF(ri, mi) == ri >= mi

\* op, before, sent: the last call, ReadIndex before it, the samples it sent;
\* delivered, emitted: bytes returned by Read and bytes sent as samples since
\* the index was last reset; chunks, sends: data-returning calls and samples
\* sent in the run; passed: bytes returned by data-returning calls in the run;
\* drains, recvd: samples received from the channel and their sum
CtrInit == [op |-> "none", before |-> 0, sent |-> <<>>, delivered |-> 0,
            emitted |-> 0, chunks |-> 0, sends |-> 0, passed |-> 0,
            drains |-> 0, recvd |-> 0]

NoReturn == [n |-> 0, err |-> "nil"]

CounterStart ==
    /\ ReadIndex = 0
    /\ MaxIndex = 0
    /\ SpeedChannel = <<>>
    /\ ret = NoReturn
    /\ ctr = CtrInit

\* Read(p) with len(p) = len: end-of-stream, or fill p, advance ReadIndex by
\* len(p) and send len(p) (the send waits for room in the channel)
Read ==
    \E len \in 0..MaxBuf :
        IF ReadEOF(ReadIndex, MaxIndex)
        THEN /\ ret' = [n |-> 0, err |-> "EOF"]
             /\ ctr' = [ctr EXCEPT !.op = "Read", !.before = ReadIndex,
                                   !.sent = <<>>]
             /\ UNCHANGED <<ReadIndex, SpeedChannel>>
        ELSE /\ Len(SpeedChannel) < ChanCap
             /\ ctr.chunks < MaxCalls
             /\ ReadIndex' = ReadIndex + len
             /\ SpeedChannel' = Append(SpeedChannel, len)
             /\ ret' = [n |-> len, err |-> "nil"]
             /\ ctr' = [ctr EXCEPT !.op = "Read", !.before = ReadIndex,
                                   !.sent = <<len>>,
                                   !.delivered = ctr.delivered + len,
                                   !.emitted = ctr.emitted + len,
                                   !.chunks = ctr.chunks + 1,
                                   !.sends = ctr.sends + 1,
                                   !.passed = ctr.passed + len]

\* Write(p) with len(p) = len: send len(p)
Write ==
    \E len \in 0..MaxBuf :
        /\ Len(SpeedChannel) < ChanCap
        /\ ctr.chunks < MaxCalls
        /\ SpeedChannel' = Append(SpeedChannel, len)
        /\ ret' = [n |-> len, err |-> "nil"]
        /\ ctr' = [ctr EXCEPT !.op = "Write", !.before = ReadIndex,
                              !.sent = <<len>>,
                              !.chunks = ctr.chunks + 1,
                              !.sends = ctr.sends + 1,
                              !.passed = ctr.passed + len]
        /\ UNCHANGED ReadIndex

CounterRead ==
    /\ Read
    /\ UNCHANGED <<aggVars, ctlVars, statVars, MaxIndex>>

CounterWrite ==
    /\ Write
    /\ UNCHANGED <<aggVars, ctlVars, statVars, MaxIndex>>

\* UploadFile, before each request: counter.ReadIndex = int64(0)
CounterReset ==
    /\ ReadIndex' = 0
    /\ ctr' = [ctr EXCEPT !.op = "reset", !.before = ReadIndex, !.sent = <<>>,
                          !.delivered = 0, !.emitted = 0]
    /\ UNCHANGED <<aggVars, ctlVars, statVars, MaxIndex, SpeedChannel, ret>>

\* the aggregator receives the sample
CounterDrain ==
    /\ SpeedChannel # <<>>
    /\ SpeedChannel' = Tail(SpeedChannel)
    /\ ctr' = [ctr EXCEPT !.drains = ctr.drains + 1,
                          !.recvd = ctr.recvd + Head(SpeedChannel)]
    /\ UNCHANGED <<aggVars, ctlVars, statVars, ReadIndex, MaxIndex, ret>>

NextCounter ==
    \/ CounterRead
    \/ CounterWrite
    \/ CounterReset
    \/ CounterDrain

(***************************************************************************)
(* The specifications.                                                      *)
(***************************************************************************)
LibStart == StatStart /\ CounterStart

Init == variant \in Variants /\ AggStart /\ CtlStart /\ LibStart

Next == NextAgg

Spec == Init /\ [][Next]_vars

InitCtl == variant = "cmd" /\ AggStart /\ CtlStart /\ LibStart

SpecCtl == InitCtl /\ [][NextCtl]_vars

\* a statistics function is called on any samples and any window
InitStat ==
    /\ variant = "cmd" /\ AggStart /\ CtlStart /\ CounterStart
    /\ statNums \in StatInputs
    /\ winN \in -1..(MaxLen + 1)
    /\ called = "none"
    /\ out = NoResult

SpecStat == InitStat /\ [][NextStat]_vars

\* counter.MaxIndex = int64(FastMaxPayload) for an upload, 0 for a download
InitCounter ==
    /\ variant = "part_001" /\ AggStart /\ CtlStart /\ StatStart
    /\ ReadIndex = 0
    /\ MaxIndex \in 0..MaxPayload
    /\ SpeedChannel = <<>>
    /\ ret = NoReturn
    /\ ctr = CtrInit

SpecCounter == InitCounter /\ [][NextCounter]_vars

(***************************************************************************)
(* Properties of the concurrent aggregator.                                 *)
(***************************************************************************)
Range(s) == {s[k] : k \in 1..Len(s)}

\* the goroutines whose position is in P
NumAt(P) ==
    BagCardinality([r \in {x \in W : x.pc \in P} |-> CopiesIn(r, workers)])

\* main has left the wait loop of a test type by its break
LoopLeft == mpc \in {"spawn", "exit"} /\ printed # <<>>

LastPrinted == printed[Len(printed)]

\* C1: for a test type with N spawned workers the outstanding counter is
\* N minus the completions received and never below 0, no more than N
\* completions are ever received, the loop is not left before the N-th, and
\* (N >= 1) receiving the N-th leaves it.
CompletionAccounting ==
    /\ totalTimes >= 0
    /\ hist.doneRecv <= hist.doneSent
    /\ hist.doneSent <= hist.spawned
    /\ mpc = "wait" =>
        /\ totalTimes = hist.spawned - hist.doneRecv
        /\ hist.spawned > 0 => hist.doneRecv < hist.spawned
    /\ LoopLeft => hist.doneRecv = hist.spawned

\* C1: a test type with two or more workers has been left after all of them
\* were counted
CompletionAccountingReached ==
    LoopLeft /\ hist.spawned >= 2 /\ hist.doneRecv = hist.spawned

\* C2: in the upload test the aggregator drops one sample per upload worker:
\* never more samples than there are workers.
UploadSuppressesOnePerWorker ==
    (variant = "part_001" /\ mpc = "wait" /\ test = "upload"
        /\ testsToRun = <<"upload">>)
    => hist.suppressed <= hist.spawned

ProbeErrorEndsProbeOnly ==
    \A r \in W : (r.kind = "latency" /\ r.pc = "fatal") => Alive

\* C5: a download or upload worker whose request failed with a transport
\* error leaves the run alive.
TransferErrorEndsWorkerOnly ==
    \A r \in W : (r.kind \in {"download", "upload"} /\ r.pc = "fatal") => Alive

\* C6: every goroutine whose function has ended, by return or by error, has
\* sent its completion, once.
EveryExitAnnounced == NumAt({"dead", "fatal"}) = hist.doneSent

\* the latency test has been left and every sample sent has been received
LatencyDone == LoopLeft /\ LastPrinted = "latency"

IpConflictEndsBeforeNetwork ==
    hist.ipBoth =>
        /\ mpc = "fatal" /\ fatalBy = "ipflags"
        /\ nTargets = 0 /\ testIdx = 0
        /\ workers = EmptyBag /\ totalTimes = 0
        /\ hist.spawned = 0 /\ hist.nReq = 0 /\ hist.nEmit = 0
        /\ hist.doneSent = 0
        /\ currentSpeed = <<>> /\ doneChan = <<>> /\ pingChan = <<>>
        /\ printed = <<>>

\* C17: both flags were given, with tests selected
IpConflictReached ==
    /\ hist.ipBoth /\ fatalBy = "ipflags"
    /\ Len(testsToRun) = 2

\* the test types the flags ask for: all when none is named
Wanted ==
    LET named == {k \in 1..3 : hist.sel[k]}
    IN  IF named = {} THEN 1..3 ELSE named

\* the test types in their fixed order
TestOrder == <<"latency", "download", "upload">>

\* C18: the tests to run are those the flags ask for (all three when none
\* is named), in the order latency, download, upload; the tests finished
\* are an initial part of them, the test in progress is the next one and its
\* workers are of its type, so each runs at most once and in that order; a
\* run that ends normally has finished all of them.
TestsRunAsSelected ==
    /\ mpc # "parse" =>
          /\ Len(testsToRun) = Cardinality(Wanted)
          /\ \A k \in 1..Len(testsToRun) :
                \E j \in Wanted :
                    /\ testsToRun[k] = TestOrder[j]
                    /\ Cardinality({i \in Wanted : i < j}) = k - 1
    /\ Len(printed) <= Len(testsToRun)
    /\ \A k \in 1..Len(printed) : printed[k] = testsToRun[k]
    /\ mpc \in {"spawn", "wait"} => testIdx = Len(printed) + 1
    /\ mpc = "wait" => \A w \in W : w.kind = testsToRun[testIdx]
    /\ mpc = "exit" => printed = testsToRun

\* C18: no test flag was given and the three tests finished in order
TestsRunReached ==
    /\ hist.sel = <<FALSE, FALSE, FALSE>>
    /\ mpc = "exit"
    /\ printed = <<"latency", "download", "upload">>

\* C19: when the wait loop of a download test has been left, no sample is
\* waiting in the speed channel: every sample sent was received and added.
DownloadLeavesNoSample ==
    (LoopLeft /\ LastPrinted = "download") => currentSpeed = <<>>

\* C20: the aggregator is never stuck in its wait loop, whatever the number
\* of workers spawned: while it waits, a worker or the aggregator itself can
\* take a step, so that the completions still to come lead it out.
WaitLoopNeverStuck ==
    mpc = "wait" => ENABLED Next

\* a step of main: the spawn loop, or a step that moves no goroutine
AggregatorStep == mpc = "spawn" \/ workers' = workers

\* C21: the running byte total, the outstanding-worker count and the upload
\* discount counter change only in steps of the aggregator: no step of a
\* worker writes any of them.
AggregationStateOwnedByAggregator ==
    [][(\/ totalDl' # totalDl
        \/ totalTimes' # totalTimes
        \/ uploadInitialSent' # uploadInitialSent) => AggregatorStep]_vars

\* C22: when a test type starts (main is about to spawn its workers) the
\* sample, latency and completion channels are empty, so nothing sent in an
\* earlier test type can be received in this one.
TestStartsWithEmptyChannels ==
    mpc = "spawn" =>
        (currentSpeed = <<>> /\ pingChan = <<>> /\ doneChan = <<>>)

\* C23: when the latency test has printed its value, every sample sent by a
\* probe has been received, the value is the minimum of the samples of all
\* probes, and it is not the 0 of an empty sample set when a probe sent one.
LatencyOverAllSamplesSent ==
    LET sent == UNION {hist.sentBy[e] : e \in 1..nTargets}
    IN  LatencyDone =>
          /\ pingChan = <<>>
          /\ sent # {} => (totalPing # <<>> /\ final.num = SetMin(sent))

\* no goroutine that has sent its completion takes a further step
DeadStaysDead ==
    mpc # "spawn" =>
        \A r \in W :
            r.pc = "dead" => CopiesIn(r, workers') >= CopiesIn(r, workers)

ReturningTransfers(B) ==
    BagCardinality([x \in {y \in BagToSet(B) :
                              y.kind \in {"download", "upload"}
                              /\ y.pc = "dying"} |-> CopiesIn(x, B)])

\* C27: a step in which a download or upload worker's request ends with an
\* error (its deadline expired) and the worker returns changes that one
\* worker only: every sibling keeps its state, and the channels, the
\* counters of main and the run itself are left as they were.
ExpiryEndsOneWorker ==
    [][ReturningTransfers(workers') > ReturningTransfers(workers) =>
        /\ \E r \in W :
              /\ r.pc \notin {"dying", "dead", "fatal"}
              /\ workers' = Move(workers, r, Returning(r))
        /\ UNCHANGED <<mpc, apc, fatalBy, currentSpeed, doneChan, pingChan,
                       totalTimes, uploadInitialSent, totalDl, speedMbps,
                       testIdx, printed>>]_vars

\* C27: one download worker has returned and announced it while a sibling
\* is still copying and has a sample in the channel
ExpiryReached ==
    /\ mpc = "wait" /\ test = "download"
    /\ \E w \in W : w.pc = "dead"
    /\ \E w \in W : w.pc = "copy"
    /\ currentSpeed # <<>>

\* C28: the throughput computed on receipt of a sample is a division by a
\* positive elapsed time: the value is finite.
ThroughputDivisorPositive ==
    speedMbps.den > 0

(***************************************************************************)
(* Properties of the adaptive controller, over the record of every trial    *)
(* run for the current direction.                                           *)
(***************************************************************************)
\* the trials whose throughput exceeds the slow-regime cutoff
OverCutoff ==
    {k \in 1..Len(trials) : trials[k].speed > downMeasureSlowMB * UnitsPerMiB}

\* the first of them, 0 when there is none
FirstOver == IF OverCutoff = {} THEN 0 ELSE SetMin(OverCutoff)

\* the throughputs of the first k trials without trial f, in order
RECURSIVE Without(_, _)
Without(k, f) ==
    IF k = 0 THEN <<>>
    ELSE IF k = f THEN Without(k - 1, f)
    ELSE Append(Without(k - 1, f), trials[k].speed)

\* the samples recorded when trial k had been handled
RecordedAt(k) == Without(k, FirstOver)

\* C8: the first trial over the cutoff, and no other, is left out of the
\* sample sequence; the trials up to and including it ran with the slow
\* size, every later one with the fast size; window and threshold are the
\* fast ones from that trial on and stay so; the window of the report holds
\* recorded samples only.
EscalationDiscardsFirstFastTrial ==
    LET f == FirstOver
        fast(k) == f # 0 /\ k >= f
    IN  /\ \A k \in 1..Len(trials) :
            /\ trials[k].kept = (k # f)
            /\ trials[k].mb = IF fast(k - 1) THEN downMeasureFastMB
                              ELSE downMeasureSlowMB
            /\ trials[k].n = IF fast(k) THEN downStdLastVarsFast
                             ELSE downStdLastVarsSlow
            /\ trials[k].max = IF fast(k) THEN downStdMaxFast
                               ELSE downStdMaxSlow
        /\ totalDownloads = Without(Len(trials), f)
        /\ cutOffComplete = (f # 0)
        /\ downMeasureMB = IF f # 0 THEN downMeasureFastMB
                           ELSE downMeasureSlowMB
        /\ downStdLastVars = IF f # 0 THEN downStdLastVarsFast
                             ELSE downStdLastVarsSlow
        /\ downStdMax = IF f # 0 THEN downStdMaxFast ELSE downStdMaxSlow
        /\ cpc = "reported" =>
              reported.usedMB = (Len(trials) - (IF f # 0 THEN 1 ELSE 0))
                                * downMeasureMB

\* C8: the controller escalated after it had recorded slow samples, a later
\* trial was over the cutoff again, and the value was reported
EscalationReached ==
    /\ cpc = "reported"
    /\ FirstOver >= 2
    /\ \E k \in OverCutoff : k > FirstOver

\* the population variance of w is below (max / 10 MiB/s)^2: with n = Len(w),
\* n * sum of squares - (sum)^2 < n^2 * (max * UnitsPerMiB / 10)^2
VarianceBelow(w, max) ==
    LET sq == [k \in 1..Len(w) |-> w[k] * w[k]]
    IN  100 * (Len(w) * SumSeq(sq) - SumSeq(w) * SumSeq(w))
            < Len(w) * Len(w) * max * max * UnitsPerMiB * UnitsPerMiB

\* at recorded trial k there were at least W samples and the last W of them
\* deviated less than the threshold, W and threshold as in force at trial k
ConvergedAt(k) ==
    /\ Len(RecordedAt(k)) >= trials[k].n
    /\ VarianceBelow(LastN(RecordedAt(k), trials[k].n), trials[k].max)

\* C9: the loop ends by its break exactly at the first recorded trial at
\* which at least W samples exist and the last W deviate less than the
\* threshold in force: no trial runs after such a trial, and a break happens
\* at no other trial.
StopsExactlyOnConvergence ==
    /\ \A k \in 1..Len(trials) :
          (trials[k].kept /\ ConvergedAt(k)) => (k = Len(trials) /\ broke)
    /\ broke =>
          /\ cpc \in {"report", "reported"}
          /\ trials # <<>>
          /\ trials[Len(trials)].kept
          /\ ConvergedAt(Len(trials))
          /\ Len(totalDownloads) >= downStdLastVars
    /\ (cpc \in {"report", "reported"} /\ ~broke) => loopIdx = downMaxLoop

\* C9: the loop broke with more samples than the window, in the fast regime
ConvergenceReached ==
    /\ broke /\ cutOffComplete
    /\ Len(totalDownloads) > downStdLastVars

\* the last W recorded samples, W the window in force
Window ==
    {totalDownloads[k] :
        k \in (Len(totalDownloads) - downStdLastVars + 1)..Len(totalDownloads)}

\* C10: the value reported is the maximum of the last W recorded samples (W
\* the window in force when the loop ended), in bytes per second over 125000.
ReportsMaxOfWindow ==
    cpc = "reported" =>
        /\ Len(totalDownloads) >= downStdLastVars
        /\ reported.num = SetMax(Window) * BytesPerMiB
        /\ reported.den = UnitsPerMiB * 125000

\* C10: a report whose window leaves out a larger, earlier sample
ReportReached ==
    /\ cpc = "reported"
    /\ Len(totalDownloads) > downStdLastVars
    /\ \E k \in 1..Len(totalDownloads) : totalDownloads[k] > SetMax(Window)

\* C11: when the loop ends at the ceiling without a break, exactly
\* downMaxLoop samples are recorded wherever the escalation happened; at the
\* report point there are at least W samples, so the report line never
\* panics (a panic comes from a failed trial only), and the value reported
\* is the maximum of the last W.
CeilingStillReports ==
    /\ cpc = "report" => Len(totalDownloads) >= downStdLastVars
    /\ (cpc \in {"report", "reported"} /\ ~broke) =>
          /\ loopIdx = downMaxLoop
          /\ Len(totalDownloads) = downMaxLoop
    /\ (cpc = "reported" /\ ~broke) =>
          reported.num = SetMax(Window) * BytesPerMiB
    /\ cpc = "panic" => (~broke /\ loopIdx < downMaxLoop)

\* C11: the ceiling was reached without convergence after a late escalation,
\* and the value was reported
CeilingReached ==
    /\ cpc = "reported" /\ ~broke
    /\ FirstOver >= downStdLastVarsSlow

\* the trials discarded by the escalation
Discarded == {k \in 1..Len(trials) : ~trials[k].kept}

\* the trials the loop can still run: the iterations left, and one more while
\* the escalation has not happened
TrialsLeft ==
    (downMaxLoop - loopIdx) + (IF cutOffComplete THEN 0 ELSE 1)

\* C25: in one direction at most one trial is discarded, the regime never
\* goes back from fast to slow, at most downMaxLoop + 1 trials run and at
\* most downMaxLoop samples are recorded; every trial that does not end the
\* loop lowers the number of trials left, which is positive while the loop
\* runs, so the loop ends.
ControllerLoopBounded ==
    /\ [](/\ Cardinality(Discarded) <= 1
          /\ \A k \in 1..Len(trials) : \A j \in k..Len(trials) :
                trials[k].n = downStdLastVarsFast =>
                    /\ trials[j].n = downStdLastVarsFast
                    /\ trials[j].max = downStdMaxFast
                    /\ (j > k => trials[j].mb = downMeasureFastMB)
          /\ Len(trials) <= downMaxLoop + 1
          /\ Len(totalDownloads) <= downMaxLoop
          /\ Len(trials) = Len(totalDownloads) + Cardinality(Discarded)
          /\ loopIdx <= downMaxLoop
          /\ cpc = "trial" => TrialsLeft > 0)
    /\ [][(cpc = "trial" /\ cpc' = "trial") =>
            (TrialsLeft' < TrialsLeft /\ Len(trials') = Len(trials) + 1)]_vars

\* C25: a loop that ran downMaxLoop + 1 trials, one of them discarded, and
\* reported
MostTrialsReached ==
    /\ cpc = "reported"
    /\ Len(trials) = downMaxLoop + 1
    /\ Len(totalDownloads) = downMaxLoop

\* the recorded trials among the first k
KeptUpTo(k) == {j \in 1..k : trials[j].kept}

\* the trials whose samples are the last W recorded when trial k has been
\* handled, W the window in force at trial k
WindowTrials(k) ==
    {j \in KeptUpTo(k) :
        Cardinality({i \in KeptUpTo(k) : i > j}) < trials[k].n}

\* C26: whenever the window of the last W samples is used, after a recorded
\* trial with at least W samples recorded, every sample in it comes from a
\* trial of the size of the regime then in force.
WindowOfOneRegime ==
    \A k \in 1..Len(trials) :
        (trials[k].kept /\ Cardinality(KeptUpTo(k)) >= trials[k].n) =>
            \A j \in WindowTrials(k) : trials[j].mb = trials[k].mb

\* the sizes, in MB, of the first k trials, summed
RECURSIVE PayloadOfTrials(_)
PayloadOfTrials(k) ==
    IF k = 0 THEN 0 ELSE PayloadOfTrials(k - 1) + trials[k].mb

\* C29: the volume reported as used is the sum of the sizes of all the
\* trials that ran, recorded or discarded.
UsedIsPayloadOfAllTrials ==
    cpc = "reported" => reported.usedMB = PayloadOfTrials(Len(trials))

(***************************************************************************)
(* Properties of the statistics functions.                                  *)
(***************************************************************************)
\* s[lo] + ... + s[hi]
RECURSIVE SumFromTo(_, _, _)
SumFromTo(s, lo, hi) ==
    IF lo > hi THEN 0 ELSE s[lo] + SumFromTo(s, lo + 1, hi)

\* s[lo]^2 + ... + s[hi]^2
RECURSIVE SqSumFromTo(_, _, _)
SqSumFromTo(s, lo, hi) ==
    IF lo > hi THEN 0 ELSE s[lo] * s[lo] + SqSumFromTo(s, lo + 1, hi)

\* C12: a last-N call panics exactly when n <= 0 or n > len(samples);
\* otherwise it returns the mean, the (squared) population standard
\* deviation or the maximum of the elements len-n+1 .. len of the samples.
LastNStatistics ==
    LET len == Len(statNums)
        lo == len - winN + 1
        sum == SumFromTo(statNums, lo, len)
        sq == SqSumFromTo(statNums, lo, len)
    IN  called \in {"CalcMeanOfLastN", "CalcStdDeviationLastN",
                    "CalcMaxValueLastN"} =>
          /\ out.panic = (winN <= 0 \/ winN > len)
          /\ (~out.panic /\ called = "CalcMeanOfLastN") =>
                out.num = sum /\ out.den = winN
          /\ (~out.panic /\ called = "CalcMaxValueLastN") =>
                /\ out.num = SetMax({statNums[k] : k \in lo..len})
                /\ out.den = 1
          /\ (~out.panic /\ called = "CalcStdDeviationLastN") =>
                /\ out.den > 0
                /\ out.num * winN * winN = (winN * sq - sum * sum) * out.den

\* C12: the deviation of the last two of three samples, which differ
LastNStatisticsReached ==
    /\ called = "CalcStdDeviationLastN" /\ ~out.panic
    /\ Len(statNums) = 3 /\ winN = 2 /\ out.num > 0
    /\ statNums[1] # statNums[2]

\* the distance between two samples
Dist(a, b) == IF a >= b THEN a - b ELSE b - a

\* the distances between the consecutive samples s[1] .. s[hi], summed
RECURSIVE DistSum(_, _)
DistSum(s, hi) ==
    IF hi < 2 THEN 0 ELSE DistSum(s, hi - 1) + Dist(s[hi], s[hi - 1])

\* C15: CalcJitter panics exactly when it is given fewer than two samples;
\* otherwise it returns the sum of the distances between consecutive samples
\* divided by their number less one.
JitterIsMeanAbsoluteDifference ==
    LET len == Len(statNums)
    IN  called = "CalcJitter" =>
          /\ out.panic = (len < 2)
          /\ ~out.panic =>
                /\ out.den = len - 1
                /\ out.num = DistSum(statNums, len)

\* C15: the samples 10, 15, 12 have jitter (5 + 3) / 2 = 4
JitterReached ==
    /\ called = "CalcJitter" /\ ~out.panic
    /\ statNums = <<10, 15, 12>>
    /\ out.num = 4 * out.den

\* the samples are n copies of one value
Identical(s, n) == Len(s) = n /\ \A k \in 1..n : s[k] = s[1]

\* C16: the standard deviation, as computed, of a window of
\* downStdLastVarsFast identical values is 0, and that of a window of
\* downStdLastVarsSlow identical values x is 0 or the last mantissa bit of
\* x, never more than x / 2^(FloatBits-1).
IdenticalWindowDeviation ==
    called = "CalcStdDeviation" =>
        /\ Identical(statNums, downStdLastVarsFast) =>
              (out.den > 0 /\ out.num = 0)
        /\ Identical(statNums, downStdLastVarsSlow) =>
              /\ out.den > 0
              /\ out.num * Pow2(FloatBits - 1) <= statNums[1] * out.den

\* C16: three samples of 14 units, whose computed mean is 13 and whose
\* computed deviation is 1
IdenticalWindowReached ==
    /\ called = "CalcStdDeviation"
    /\ statNums = <<14, 14, 14>>
    /\ out.num = out.den

\* C16: the standard deviation, as computed, of a window of W identical
\* values is exactly 0, W the window of either regime.
IdenticalWindowDeviationIsZero ==
    (/\ called = "CalcStdDeviation"
     /\ \/ Identical(statNums, downStdLastVarsSlow)
        \/ Identical(statNums, downStdLastVarsFast)) =>
        (out.den > 0 /\ out.num = 0)

(***************************************************************************)
(* Properties of the byte-stream counter.                                   *)
(***************************************************************************)
\* C13: a Write and a data-returning Read send exactly one sample, equal to
\* the n they return, so the samples received and waiting are the chunks
\* returned, in number and in sum; a Read returns end-of-stream exactly when
\* ReadIndex >= MaxIndex, and then returns 0, sends nothing and leaves
\* ReadIndex as it was; a data-returning Read advances ReadIndex by n.
CounterEmitsPerChunk ==
    /\ ctr.sends = ctr.chunks
    /\ ctr.chunks = ctr.drains + Len(SpeedChannel)
    /\ ctr.passed = ctr.recvd + SumSeq(SpeedChannel)
    /\ ctr.emitted = ctr.delivered
    /\ (ctr.op \in {"Read", "Write"} /\ ret.err = "nil") =>
          ctr.sent = <<ret.n>>
    /\ ctr.op = "Write" => (ret.err = "nil" /\ ReadIndex = ctr.before)
    /\ ctr.op = "Read" =>
          /\ (ret.err = "EOF") = (ctr.before >= MaxIndex)
          /\ ret.err = "EOF" =>
                (ret.n = 0 /\ ctr.sent = <<>> /\ ReadIndex = ctr.before)
          /\ ret.err = "nil" => ReadIndex = ctr.before + ret.n

\* C13: a Read at the limit after data was read, the samples all received
CounterEmitsReached ==
    /\ ctr.op = "Read" /\ ret.err = "EOF"
    /\ MaxIndex > 0 /\ ctr.delivered >= MaxIndex
    /\ ctr.drains >= 2 /\ SpeedChannel = <<>>

\* C14: between two resets of its index a read-mode counter never delivers
\* more than MaxIndex bytes, and when it signals end-of-stream it has
\* delivered exactly MaxIndex.
CounterDeliversExactly ==
    /\ ctr.delivered <= MaxIndex
    /\ (ctr.op = "Read" /\ ret.err = "EOF") => ctr.delivered = MaxIndex

====
